---- MODULE Spec2Model ----
(***************************************************************************)
(* A model of src/extensions/libevent.c, the libevent backend of           *)
(* guile-fibers: the six primitives (primitive-event-wake,                 *)
(* primitive-create-event-base, primitive-add-event,                       *)
(* primitive-remove-event, primitive-resize, primitive-event-loop), the    *)
(* collector callback cb_func, run_event_loop and the finalizer            *)
(* free_libevt.                                                            *)
(*                                                                         *)
(* libevent and libguile are external libraries.  They are modelled by the *)
(* contract of the functions the file calls: event_new/event_add/event_del *)
(* register and cancel a watch, event_base_loopexit arms a one-shot exit   *)
(* deadline on the base, event_base_loop(EVLOOP_ONCE) blocks until a watch *)
(* is ready or a deadline expires and then runs the callbacks of the ready *)
(* watches, in no particular order; each of them may also fail.            *)
(*                                                                         *)
(* One scheduler thread calls add, remove, resize and the loop (the file   *)
(* has no locking and relies on that); any other thread may call wake at   *)
(* any moment, also while the loop is blocked or draining.                 *)
(***************************************************************************)
EXTENDS Integers, Sequences, FiniteSets, TLC

\* ------------------------------------------------------------------ bounds
MaxWatches == 2   \* struct event objects ever created by primitive-add-event
NBuf       == 2   \* bytevectors the caller owns; bytevector b holds b records
PipeCap    == 1   \* bytes the wake pipe holds before a write would block
MaxTimers  == 1   \* exit deadlines armed on the base at one time
MaxPending == 70  \* bytes in the wake pipe at the start of a run without a writer

\* --------------------------------------------------------------- constants
sizeof_event_data == 8            \* struct event_data { int fd; short event; }
sizeof_zeroes == 32               \* char zeroes[32]
scm_c_time_units_per_second == 1000000000

EV_READ    == "EV_READ"
EV_WRITE   == "EV_WRITE"
EV_PERSIST == "EV_PERSIST"

\* Descriptors.  Only their identity matters, so they are names, not numbers.
WakeFd  == "wakefd"               \* write end of the wake pipe
WokeFd  == "wokefd"               \* read end of the wake pipe
UserFd  == "userfd"               \* a descriptor of the application
NoFd    == "nofd"

EWOULDBLOCK == "EWOULDBLOCK"
EAGAIN      == "EAGAIN"
EBADF       == "EBADF"
NoErrno     == "0"

\* What the caller passes to primitive-add-event: (fd, mask).
AddChoices ==
  { <<WokeFd, {EV_READ, EV_PERSIST}>>,
    <<UserFd, {EV_READ}>>,
    <<UserFd, {EV_WRITE, EV_PERSIST}>> }

\* Timeouts the caller passes to primitive-event-loop, in host time units.
Timeouts == {-1, 0, 2000}

\* What write(2) of one byte to a pipe can give: the byte written, or -1 with
\* errno set.
WriteOk    == [ret |-> 1, errno |-> NoErrno]
WriteFails == { [ret |-> -1, errno |-> e] : e \in {EWOULDBLOCK, EAGAIN, EBADF} }

Bytevectors == 1 .. NBuf
Slots == 0 .. NBuf                \* slot NBuf lies past the end of every buffer

\* ------------------------------------------------------------------- state
VARIABLES
  watches,      \* the struct event objects, in order of creation
  data,         \* struct wait_data: rv, events, maxevents
  buf,          \* the bytevectors: the current one's contents; of any other,
                \* what was written to it since the resize that replaced it
  pipe,         \* bytes pending in the wake pipe
  deadlines,    \* exit deadlines armed on the base: not yet expired / expired
  sleep_fd,     \* the descriptor the calling thread is marked as blocking on
  in_guile,     \* FALSE while the thread has left the host runtime
  pc,           \* where the scheduler thread is
  c_timeout,    \* the timeout of the primitive-event-loop call in progress
  active,       \* watches made active by the reactor, callback not yet run
  what,         \* the ready mask of each watch made active in this call
  ready,        \* the conditions the reactor saw ready on UserFd in this call
  ret,          \* what event_base_loop returned in this call
  gotterm,      \* an exit deadline expired in this call
  err,          \* the message of the fatal error that ended the call
  result,       \* the count the call returned
  start_rv,     \* data.rv when the call began
  collected,    \* the watches whose record cb_func deposited, in order
  wake_idx,     \* the index the compaction removed, or -1
  woken,        \* a wake byte was written while this call was blocked
  wake,         \* observer: the last primitive-event-wake, write's result and raised
  resize_mark,  \* observer: how many watches existed at the last resize to a
                \* new bytevector, or -1
  ever_fired,   \* observer: an earlier call made some watch active
  pending0,     \* observer: the bytes put in the wake pipe before the calls
                \* of a run without a writer, or -1
  conv,         \* observer: a timeout, the time units per second and the
                \* struct timeval run_event_loop made of them
  released      \* the pointer objects of the handle whose finalizer has
                \* called event_base_free on the base

\* The observers record history for the properties below and are read by no
\* action.  Spec leaves them alone; Observed is Spec with them switched on.
obs == << wake, resize_mark, ever_fired, pending0, conv >>

vars == << watches, data, buf, pipe, deadlines, sleep_fd, in_guile, pc,
           c_timeout, active, what, ready, ret, gotterm, err, result,
           start_rv, collected, wake_idx, woken, obs, released >>

\* ----------------------------------------------------------------- helpers
event_data(fd, ev) == [fd |-> fd, event |-> ev]
NoRec == event_data(NoFd, {})

\* A bytevector as the caller makes it.
Fresh == [i \in Slots |-> NoRec]

SCM_BYTEVECTOR_LENGTH(b) == b * sizeof_event_data

maxevents_of(b) == SCM_BYTEVECTOR_LENGTH(b) \div sizeof_event_data

Min(a, b) == IF a < b THEN a ELSE b

WatchIds == 1 .. Len(watches)

\* The conditions ready on a descriptor: the read end of the pipe is readable
\* while bytes are pending; UserFd is as the reactor finds it.
ReadyOn(fd, rd, bytes) ==
  IF fd = WokeFd THEN (IF bytes > 0 THEN {EV_READ} ELSE {}) ELSE rd

\* The ready mask libevent hands to the callback of event e.
WhatOf(e, rd, bytes) == (e.ev \cap ReadyOn(e.fd, rd, bytes)) \cap {EV_READ, EV_WRITE}

\* A watch is pending on the base or an exit deadline is armed.
event_haveevents ==
  \/ \E w \in WatchIds : watches[w].pending
  \/ deadlines.armed + deadlines.expired > 0

\* A read watch on the woke descriptor is registered.
HasWokeWatch ==
  \E w \in WatchIds :
    watches[w].pending /\ watches[w].fd = WokeFd /\ EV_READ \in watches[w].ev

\* ------------------------------------------------------------------ cb_func
\* (the guard off by one)
CbFull_off_by_one(d) == d.rv > d.maxevents

\* if (rv >= data->maxevents) SCM_MISC_ERROR (...)
CbFull(d) == d.rv >= d.maxevents

\* struct event_data ev_data = { fd, what }
CbRecord(fd, wh) == event_data(fd, wh)

\* memcpy (data->events + rv, &ev_data, sizeof (struct event_data))
CbStore(b, d, rec) == [b EXCEPT ![d.events][d.rv] = rec]

\* (every event taken off the base once it is active)
Activated_one_shot(e) == [e EXCEPT !.pending = FALSE]

\* libevent, just before it runs a callback: an event made without EV_PERSIST
\* is no longer pending once it has become active.
Activated(e) == [e EXCEPT !.pending = (EV_PERSIST \in e.ev)]

\* ------------------------------------------------- primitive-event-wake
\* (the test without EAGAIN)
WakeRaises_without_eagain(w) == w.ret <= 0 /\ w.errno # EWOULDBLOCK

\* write (c_fd, &zero, 1) <= 0 && errno != EWOULDBLOCK && errno != EAGAIN
WakeRaises(w) == w.ret <= 0 /\ w.errno # EWOULDBLOCK /\ w.errno # EAGAIN

\* What the write can give in this state: a full pipe would block, and any
\* write can fail otherwise.
WriteResults(bytes) ==
  (IF bytes < PipeCap THEN {WriteOk}
                      ELSE {w \in WriteFails : w.errno \in {EWOULDBLOCK, EAGAIN}})
  \cup {w \in WriteFails : w.errno = EBADF}

NoWake == [ret |-> 0, errno |-> NoErrno, raised |-> FALSE]

\* The call as an observer of the waking thread sees it.
Outcome(w) == [ret |-> w.ret, errno |-> w.errno, raised |-> WakeRaises(w)]

\* The effect of the call on everything else.
event_wake(w) ==
  /\ w \in WriteResults(pipe)
  /\ pipe' = IF w.ret > 0 THEN pipe + w.ret ELSE pipe
  /\ woken' = (woken \/ (w.ret > 0 /\ pc = "loop" /\ c_timeout # 0 /\ HasWokeWatch))
  /\ UNCHANGED << watches, data, buf, deadlines, sleep_fd, in_guile, pc,
                  c_timeout, active, what, ready, ret, gotterm, err, result,
                  start_rv, collected, wake_idx >>

scm_primitive_event_wake(w) ==
  /\ event_wake(w)
  /\ UNCHANGED << obs, released >>

observed_event_wake(w) ==
  /\ event_wake(w)
  /\ wake' = Outcome(w)
  /\ UNCHANGED << resize_mark, ever_fired, pending0, conv, released >>

\* ------------------------------------------- primitive-create-event-base
\* data->rv = 0; data->events = contents; data->maxevents = length / sizeof
scm_primitive_create_event_base(b) ==
  [rv |-> 0, events |-> b, maxevents |-> maxevents_of(b)]

\* No conversion observed.
NoConv == [t |-> 0, U |-> 1, tv |-> << >>]

Init ==
  /\ watches = << >>
  /\ \E b \in Bytevectors : data = scm_primitive_create_event_base(b)
  /\ buf = [b \in Bytevectors |-> Fresh]
  /\ pipe = 0
  /\ deadlines = [armed |-> 0, expired |-> 0]
  /\ sleep_fd = NoFd
  /\ in_guile = TRUE
  /\ pc = "idle"
  /\ c_timeout = 0
  /\ active = {}
  /\ what = << >>
  /\ ready = {}
  /\ ret = "notrun"
  /\ gotterm = FALSE
  /\ err = ""
  /\ result = 0
  /\ start_rv = 0
  /\ collected = << >>
  /\ wake_idx = -1
  /\ woken = FALSE
  /\ wake = NoWake
  /\ resize_mark = -1
  /\ ever_fired = FALSE
  /\ pending0 = -1
  /\ conv = NoConv
  /\ released = {}

\* SCM_MISC_ERROR inside primitive-event-loop: the call ends there.
Fatal(msg) ==
  /\ pc' = "failed"
  /\ err' = msg

\* ---------------------------------------------------- primitive-add-event
new_event(fd, ev) == [fd |-> fd, ev |-> ev, pending |-> TRUE, removed |-> FALSE]

scm_primitive_add_event(c) ==
  /\ pc = "idle"
  /\ Len(watches) < MaxWatches
  /\ watches' = Append(watches, new_event(c[1], c[2]))
  /\ UNCHANGED << data, buf, pipe, deadlines, sleep_fd, in_guile, pc,
                  c_timeout, active, what, ready, ret, gotterm, err, result,
                  start_rv, collected, wake_idx, woken, obs, released >>

\* event_new gave NULL, or event_add gave -1: the error is raised and nothing
\* the caller can reach has changed.
add_event_failed ==
  /\ pc = "idle"
  /\ UNCHANGED vars

\* ------------------------------------------------- primitive-remove-event
\* (a removal that leaves the event pending)
event_del_keeps_pending(e) == [e EXCEPT !.removed = TRUE]

event_del(e) == [e EXCEPT !.pending = FALSE, !.removed = TRUE]

scm_primitive_remove_event(w) ==
  /\ pc = "idle"
  /\ w \in WatchIds
  /\ watches' = [watches EXCEPT ![w] = event_del(@)]
  /\ UNCHANGED << data, buf, pipe, deadlines, sleep_fd, in_guile, pc,
                  c_timeout, active, what, ready, ret, gotterm, err, result,
                  start_rv, collected, wake_idx, woken, obs, released >>

\* event_del gave -1: the error is raised, the watch is as it was.
remove_event_failed(w) ==
  /\ pc = "idle"
  /\ w \in WatchIds
  /\ UNCHANGED vars

\* ------------------------------------------------------- primitive-resize
\* (a resize that keeps the old capacity)
resize_data_keeps_maxevents(d, b) == [d EXCEPT !.events = b]

resize_data(d, b) == [d EXCEPT !.events = b, !.maxevents = maxevents_of(b)]

\* The caller passes a bytevector it has just made, or the current one again.
resize(b) ==
  /\ pc = "idle"
  /\ data' = resize_data(data, b)
  /\ buf' = IF b = data.events THEN buf ELSE [x \in Bytevectors |-> Fresh]
  /\ UNCHANGED << watches, pipe, deadlines, sleep_fd, in_guile, pc,
                  c_timeout, active, what, ready, ret, gotterm, err, result,
                  start_rv, collected, wake_idx, woken >>

scm_primitive_resize(b) ==
  /\ resize(b)
  /\ UNCHANGED << obs, released >>

observed_resize(b) ==
  /\ resize(b)
  /\ resize_mark' = IF b = data.events THEN resize_mark ELSE Len(watches)
  /\ UNCHANGED << wake, ever_fired, pending0, conv, released >>

\* --------------------------------------------------------- run_event_loop
\* (the divisor of milliseconds)
time_units_per_millisec(U) == U \div 1000

time_units_per_microsec(U) == U \div 1000000
microsec_per_time_units(U) == 1000000 \div U

\* struct timeval tv, as run_event_loop fills it from a timeout t >= 0
timeval(t, U) ==
  [tv_sec  |-> t \div U,
   tv_usec |-> IF time_units_per_microsec(U) > 0
                 THEN (t % U) \div time_units_per_microsec(U)
                 ELSE (t % U) * microsec_per_time_units(U)]

\* (a deadline armed for every timeout)
ArmsDeadline_always(t) == TRUE

\* if (data->timeout >= 0) ... event_base_loopexit (data->base, &tv)
ArmsDeadline(t) == t >= 0

\* event_base_loopexit: a zero deadline has expired as soon as it is armed.
event_base_loopexit(dl, tv) ==
  IF tv.tv_sec = 0 /\ tv.tv_usec = 0
    THEN [dl EXCEPT !.expired = @ + 1]
    ELSE [dl EXCEPT !.armed = @ + 1]

\* ---------------------------------------------------- primitive-event-loop
\* result = data->rv; data->rv = 0; return
Returns(d) ==
  /\ result' = d.rv
  /\ data' = [d EXCEPT !.rv = 0]
  /\ pc' = "done"

\* (the branch without its assignment)
Declined_keeps_cursor(d) == d

\* data->rv = 0, the branch taken when scm_c_prepare_to_wait_on_fd gave
\* non-zero
Declined(d) == [d EXCEPT !.rv = 0]

\* c_timeout != 0 && scm_c_prepare_to_wait_on_fd (c_wakefd): data->rv = 0,
\* and the call returns without running the reactor.
event_loop_declined(t) ==
  /\ pc = "idle"
  /\ t \in Timeouts /\ t # 0
  /\ c_timeout' = t
  /\ start_rv' = data.rv
  /\ Returns(Declined(data))
  /\ UNCHANGED << watches, buf, pipe, deadlines, sleep_fd, in_guile, active,
                  what, ready, ret, gotterm, err, collected, wake_idx, woken,
                  obs, released >>

\* The thread is marked as blocking on the wake descriptor when
\* scm_c_prepare_to_wait_on_fd returned 0, which only a non-zero timeout asks.
Prepared(t) == IF t # 0 THEN WakeFd ELSE sleep_fd

\* scm_c_wait_finished, which only a non-zero timeout calls
Finished(t) == IF t # 0 THEN NoFd ELSE sleep_fd

\* The call gets as far as event_base_loop.
event_loop_enter(t) ==
  /\ pc = "idle"
  /\ t \in Timeouts
  /\ ArmsDeadline(t) => deadlines.armed + deadlines.expired < MaxTimers
  /\ c_timeout' = t
  /\ start_rv' = data.rv
  /\ sleep_fd' = Prepared(t)
  /\ in_guile' = (t = 0)
  /\ deadlines' = IF ArmsDeadline(t)
                    THEN event_base_loopexit(deadlines,
                                             timeval(t, scm_c_time_units_per_second))
                    ELSE deadlines
  /\ pc' = "loop"
  /\ UNCHANGED << watches, data, buf, pipe, active, what, ready, ret, gotterm,
                  err, result, collected, wake_idx, woken, obs, released >>

\* event_base_loopexit gave -1: SCM_MISC_ERROR leaves run_event_loop and the
\* primitive at once.
event_loop_exit_failed(t) ==
  /\ pc = "idle"
  /\ t \in Timeouts
  /\ ArmsDeadline(t)
  /\ c_timeout' = t
  /\ start_rv' = data.rv
  /\ sleep_fd' = Prepared(t)
  /\ in_guile' = (t = 0)
  /\ Fatal("event loop exit failed")
  /\ UNCHANGED << watches, data, buf, pipe, deadlines, active, what, ready,
                  ret, gotterm, result, collected, wake_idx, woken, obs, released >>

\* Time passes: an armed deadline expires.
deadline_expires ==
  /\ deadlines.armed > 0
  /\ deadlines' = [armed |-> deadlines.armed - 1, expired |-> deadlines.expired + 1]
  /\ UNCHANGED << watches, data, buf, pipe, sleep_fd, in_guile, pc,
                  c_timeout, active, what, ready, ret, gotterm, err, result,
                  start_rv, collected, wake_idx, woken, obs, released >>

\* event_base_loop gave -1
event_base_loop_failed ==
  /\ pc = "loop"
  /\ ret' = "-1"
  /\ Fatal("event loop failed")
  /\ UNCHANGED << watches, data, buf, pipe, deadlines, sleep_fd, in_guile,
                  c_timeout, active, what, ready, gotterm, result, start_rv,
                  collected, wake_idx, woken, obs, released >>

\* The watches the reactor finds ready.
Fired(rd) ==
  { w \in WatchIds : watches[w].pending /\ WhatOf(watches[w], rd, pipe) # {} }

\* event_base_loop (EVLOOP_ONCE) stops blocking: some watch is ready or an
\* exit deadline has expired.  The ready watches become active, every expired
\* deadline is consumed.
event_base_dispatch(rd) ==
  /\ pc = "loop"
  /\ rd \in SUBSET {EV_READ, EV_WRITE}
  /\ Fired(rd) # {} \/ deadlines.expired > 0
  /\ active' = Fired(rd)
  /\ what' = [w \in Fired(rd) |-> WhatOf(watches[w], rd, pipe)]
  /\ ready' = rd
  /\ gotterm' = (deadlines.expired > 0)
  /\ deadlines' = [deadlines EXCEPT !.expired = 0]
  /\ pc' = "callbacks"
  /\ UNCHANGED << watches, data, buf, pipe, sleep_fd, in_guile, c_timeout,
                  ret, err, result, start_rv, collected, wake_idx, woken,
                  obs, released >>

\* The reactor runs the callback of one active watch.
cb_func(w) ==
  /\ pc = "callbacks"
  /\ w \in active
  /\ watches' = [watches EXCEPT ![w] = Activated(@)]
  /\ IF CbFull(data)
       THEN /\ Fatal("max events fired")
            /\ active' = {}
            /\ UNCHANGED << data, buf, collected >>
       ELSE /\ buf' = CbStore(buf, data, CbRecord(watches[w].fd, what[w]))
            /\ data' = [data EXCEPT !.rv = @ + 1]
            /\ collected' = Append(collected, w)
            /\ active' = active \ {w}
            /\ UNCHANGED << pc, err >>
  /\ UNCHANGED << pipe, deadlines, sleep_fd, in_guile, c_timeout, what, ready,
                  ret, gotterm, result, start_rv, wake_idx, woken, obs, released >>

\* for (i = 0; i < data->rv; i++) if (data->events[i].fd == c_wokefd): the
\* index of the break, or -1.  A cursor beyond maxevents makes the scan read
\* past the end of the bytevector; oob says whether what lies there compares
\* equal to the woke descriptor.
FirstWoke(b, d, fd, oob) ==
  LET hits == { i \in 0 .. d.rv - 1 :
                  IF i < d.maxevents THEN b[i].fd = fd ELSE oob }
  IN  IF hits = {} THEN -1
      ELSE CHOOSE i \in hits : \A j \in hits : i <= j

\* memmove (events + i, events + i + 1, n * sizeof (struct event_data))
memmove(b, i, n) ==
  [j \in Slots |-> IF i <= j /\ j < i + n THEN b[j + 1] ELSE b[j]]

\* (the compaction without data->rv--)
Uncount_forgotten(d) == d

\* data->rv-- on finding the woke record
Uncount(d) == [d EXCEPT !.rv = @ - 1]

\* After event_base_loop gave r >= 0: scm_c_wait_finished for a non-zero
\* timeout, then the scan for the woke record and its removal.
AfterLoop(r, oob) ==
  LET i == FirstWoke(buf[data.events], data, WokeFd, oob) IN
  /\ ret' = r
  /\ in_guile' = TRUE
  /\ sleep_fd' = Finished(c_timeout)
  /\ wake_idx' = i
  /\ IF i >= 0
       THEN /\ data' = Uncount(data)
            /\ buf' = [buf EXCEPT ![data.events] = memmove(@, i, data.rv - 1 - i)]
            /\ pc' = "drain"
            /\ UNCHANGED result
       ELSE /\ Returns(data)
            /\ UNCHANGED buf

\* event_base_loop gave 1: nothing was pending on the base.
event_base_loop_empty(oob) ==
  /\ pc = "loop"
  /\ ~ event_haveevents
  /\ AfterLoop("1", oob)
  /\ UNCHANGED << watches, pipe, deadlines, c_timeout, active, what, ready,
                  gotterm, err, start_rv, collected, woken, obs, released >>

\* event_base_loop gave 0: every callback has run.
event_base_loop_done(oob) ==
  /\ pc = "callbacks"
  /\ active = {}
  /\ AfterLoop("0", oob)
  /\ UNCHANGED << watches, pipe, deadlines, c_timeout, active, what, ready,
                  gotterm, err, start_rv, collected, woken, obs, released >>

\* read (c_wokefd, zeroes, sizeof zeroes): the bytes it takes
read(bytes, n) == Min(bytes, n)

\* (an if in the place of the while: one read, then the return)
drain_once ==
  /\ pc = "drain"
  /\ pipe' = pipe - read(pipe, sizeof_zeroes)
  /\ Returns(data)
  /\ UNCHANGED << watches, buf, deadlines, sleep_fd, in_guile, c_timeout,
                  active, what, ready, ret, gotterm, err, start_rv, collected,
                  wake_idx, woken, obs, released >>

\* while (read (...) == sizeof zeroes) { }
drain ==
  /\ pc = "drain"
  /\ pipe' = pipe - read(pipe, sizeof_zeroes)
  /\ IF read(pipe, sizeof_zeroes) = sizeof_zeroes
       THEN UNCHANGED << data, result, pc >>
       ELSE Returns(data)
  /\ UNCHANGED << watches, buf, deadlines, sleep_fd, in_guile, c_timeout,
                  active, what, ready, ret, gotterm, err, start_rv, collected,
                  wake_idx, woken, obs, released >>

\* The caller has the count (or has caught the error) and goes on.
goes_on ==
  /\ pc \in {"done", "failed"}
  /\ pc' = "idle"
  /\ in_guile' = TRUE
  /\ c_timeout' = 0
  /\ active' = {}
  /\ what' = << >>
  /\ ready' = {}
  /\ ret' = "notrun"
  /\ gotterm' = FALSE
  /\ err' = ""
  /\ result' = 0
  /\ start_rv' = 0
  /\ collected' = << >>
  /\ wake_idx' = -1
  /\ woken' = FALSE
  /\ UNCHANGED << watches, data, buf, pipe, deadlines, sleep_fd >>

continue ==
  /\ goes_on
  /\ UNCHANGED << obs, released >>

observed_continue ==
  /\ goes_on
  /\ ever_fired' = (ever_fired \/ DOMAIN what # {})
  /\ UNCHANGED << wake, resize_mark, pending0, conv, released >>

\* The steps of a primitive-event-loop call once it is inside the reactor.
InLoop ==
  \/ event_base_loop_failed
  \/ \E rd \in SUBSET {EV_READ, EV_WRITE} : event_base_dispatch(rd)
  \/ \E w \in 1 .. MaxWatches : cb_func(w)
  \/ \E oob \in BOOLEAN : event_base_loop_empty(oob)
  \/ \E oob \in BOOLEAN : event_base_loop_done(oob)
  \/ drain

\* What the scheduler thread does, apart from resizing and going on.
Scheduler ==
  \/ \E c \in AddChoices : scm_primitive_add_event(c)
  \/ add_event_failed
  \/ \E w \in 1 .. MaxWatches : scm_primitive_remove_event(w)
  \/ \E w \in 1 .. MaxWatches : remove_event_failed(w)
  \/ \E t \in Timeouts : event_loop_declined(t)
  \/ \E t \in Timeouts : event_loop_enter(t)
  \/ \E t \in Timeouts : event_loop_exit_failed(t)
  \/ InLoop

Next ==
  \/ \E w \in WriteFails \cup {WriteOk} : scm_primitive_event_wake(w)
  \/ \E b \in Bytevectors : scm_primitive_resize(b)
  \/ continue
  \/ deadline_expires
  \/ Scheduler

Spec == Init /\ [][Next]_vars

\* What a thread inside event_base_loop is bound to do: the kernel wakes it
\* when the wake pipe is readable or a deadline has expired, and the
\* callbacks, the scan and the drain are straight-line code.  Nothing binds
\* UserFd to become ready, or the reactor to fail.
Progress ==
  \/ event_base_dispatch({})
  \/ \E w \in 1 .. MaxWatches : cb_func(w)
  \/ \E oob \in BOOLEAN : event_base_loop_empty(oob)
  \/ \E oob \in BOOLEAN : event_base_loop_done(oob)
  \/ drain

FairSpec == Spec /\ WF_vars(Progress)

ObservedNext ==
  \/ \E w \in WriteFails \cup {WriteOk} : observed_event_wake(w)
  \/ \E b \in Bytevectors : observed_resize(b)
  \/ observed_continue
  \/ deadline_expires
  \/ Scheduler

Observed == Init /\ [][ObservedNext]_vars

\* ------------------------------------------------- the handle and the GC
\* The handle is scm_list_2 (scm_from_pointer (libevt, free_libevt),
\*                           scm_from_pointer (data, NULL)).
HandleSlots == {1, 2}

\* (free_libevt given to both pointer objects)
Finalizer_on_both(i) == "free_libevt"

\* The finalizer each pointer object of the handle was made with.
Finalizer(i) == IF i = 1 THEN "free_libevt" ELSE "NULL"

\* free_libevt: event_base_free (libevt->base)
free_libevt(i) == released \cup {i}

\* The program lets go of its last reference to the handle.  Every primitive
\* that works on the reactor takes the handle as an argument, so the thread is
\* in none of them, and can call none of them from here on.
drop_handle ==
  /\ pc = "idle"
  /\ pc' = "unreachable"
  /\ UNCHANGED << watches, data, buf, pipe, deadlines, sleep_fd, in_guile,
                  c_timeout, active, what, ready, ret, gotterm, err, result,
                  start_rv, collected, wake_idx, woken, obs, released >>

\* The collector finds a pointer object of the handle unreachable and runs
\* the finalizer it was made with, once.
gc_finalize(i) ==
  /\ pc = "unreachable"
  /\ i \in HandleSlots
  /\ i \notin released
  /\ Finalizer(i) = "free_libevt"
  /\ released' = free_libevt(i)
  /\ UNCHANGED << watches, data, buf, pipe, deadlines, sleep_fd, in_guile, pc,
                  c_timeout, active, what, ready, ret, gotterm, err, result,
                  start_rv, collected, wake_idx, woken, obs >>

CollectedNext ==
  \/ Next
  \/ drop_handle
  \/ \E i \in HandleSlots : gc_finalize(i)

Collected == Init /\ [][CollectedNext]_vars

\* ------------------------------------------------ a run without a writer
\* The wake pipe holds the bytes that earlier primitive-event-wake calls
\* wrote (both ends of the pipe are non-blocking, which is why the write can
\* give EWOULDBLOCK); a read watch is registered on its read end and a write
\* watch on UserFd; from here on no thread calls primitive-event-wake.
QuietInit ==
  /\ watches = << new_event(WokeFd, {EV_READ, EV_PERSIST}),
                  new_event(UserFd, {EV_WRITE, EV_PERSIST}) >>
  /\ data = scm_primitive_create_event_base(NBuf)
  /\ buf = [b \in Bytevectors |-> Fresh]
  /\ pipe \in 1 .. MaxPending
  /\ pending0 = pipe
  /\ deadlines = [armed |-> 0, expired |-> 0]
  /\ sleep_fd = NoFd
  /\ in_guile = TRUE
  /\ pc = "idle"
  /\ c_timeout = 0
  /\ active = {}
  /\ what = << >>
  /\ ready = {}
  /\ ret = "notrun"
  /\ gotterm = FALSE
  /\ err = ""
  /\ result = 0
  /\ start_rv = 0
  /\ collected = << >>
  /\ wake_idx = -1
  /\ woken = FALSE
  /\ wake = NoWake
  /\ resize_mark = -1
  /\ ever_fired = FALSE
  /\ conv = NoConv
  /\ released = {}

QuietNext ==
  \/ \E t \in Timeouts : event_loop_enter(t)
  \/ deadline_expires
  \/ \E rd \in SUBSET {EV_READ, EV_WRITE} : event_base_dispatch(rd)
  \/ \E w \in 1 .. MaxWatches : cb_func(w)
  \/ \E oob \in BOOLEAN : event_base_loop_done(oob)
  \/ drain
  \/ continue

\* The drain is a loop of straight-line code: the thread keeps running it.
Quiet == QuietInit /\ [][QuietNext]_vars /\ WF_vars(drain)

\* ------------------------------------------------- the timeout conversion
\* Time units per second a host runtime can have: divisors and multiples of
\* a million, the one of Guile among them.
Units == {1, 10, 1000, 1000000, 4000000, scm_c_time_units_per_second}

\* Timeouts handed to run_event_loop, in those units.
TimeoutsAt(U) ==
  {-1, 0, 1, 3, 31, 999, 12345, 500000, 1000001, 1999999,
   U - 1, U, U + 1, U + U \div 2, 2 * U - 1, 2 * U + 7}

ConvInit ==
  /\ \E U \in Units : \E t \in TimeoutsAt(U) :
       conv = [t |-> t, U |-> U, tv |-> << >>]
  /\ watches = << >>
  /\ data = scm_primitive_create_event_base(NBuf)
  /\ buf = [b \in Bytevectors |-> Fresh]
  /\ pipe = 0
  /\ deadlines = [armed |-> 0, expired |-> 0]
  /\ sleep_fd = NoFd
  /\ in_guile = TRUE
  /\ pc = "idle"
  /\ c_timeout = 0
  /\ active = {}
  /\ what = << >>
  /\ ready = {}
  /\ ret = "notrun"
  /\ gotterm = FALSE
  /\ err = ""
  /\ result = 0
  /\ start_rv = 0
  /\ collected = << >>
  /\ wake_idx = -1
  /\ woken = FALSE
  /\ wake = NoWake
  /\ resize_mark = -1
  /\ ever_fired = FALSE
  /\ pending0 = -1
  /\ released = {}

\* run_event_loop fills tv, which it does for a timeout >= 0 only.
fill_timeval ==
  /\ conv.tv = << >>
  /\ ArmsDeadline(conv.t)
  /\ conv' = [conv EXCEPT !.tv = timeval(conv.t, conv.U)]
  /\ UNCHANGED << watches, data, buf, pipe, deadlines, sleep_fd, in_guile, pc,
                  c_timeout, active, what, ready, ret, gotterm, err, result,
                  start_rv, collected, wake_idx, woken, wake, resize_mark,
                  ever_fired, pending0, released >>

ConvNext == fill_timeval

Conversion == ConvInit /\ [][ConvNext]_vars

\* ================================================================== claims
\* The record cb_func is given for watch w in this call.
RecOf(w) == event_data(watches[w].fd, what[w])

\* The bytevector the collector is using.
Cur == buf[data.events]

\* Every callback of this call has run and event_base_loop is about to return.
WaitOver == pc = "callbacks" /\ active = {}

\* The call returned a count after running the reactor.
Returned == pc = "done" /\ ret # "notrun"

\* The slots the returned count covers.
Counted == 0 .. result - 1

\* C1: when the watches E the reactor made ready in a call number at most the
\* capacity, then at the end of the wait the cursor is |E| and the buffer
\* holds, in slots 0 .. |E|-1, exactly one record per watch of E, each with
\* that watch's descriptor and ready mask -- whatever happened in earlier
\* calls.
C1_CollectsExactly ==
  /\ (WaitOver /\ Cardinality(DOMAIN what) <= data.maxevents) =>
       /\ data.rv = Cardinality(DOMAIN what)
       /\ Len(collected) = data.rv
       /\ { collected[i] : i \in 1 .. Len(collected) } = DOMAIN what
       /\ \A i \in 1 .. Len(collected) : Cur[i - 1] = RecOf(collected[i])
  /\ (pc = "failed" /\ err = "max events fired") =>
       Cardinality(DOMAIN what) > data.maxevents

\* C2: cb_func never writes a slot at or beyond the capacity of a bytevector;
\* a call that returns has deposited a record for every watch that fired in
\* it, and its count leaves out at most the one woke record the compaction
\* removed; the capacity error is raised only with the cursor at or beyond
\* the capacity.
C2_NeverOverflows ==
  /\ \A b \in Bytevectors : \A i \in Slots :
       i >= maxevents_of(b) => buf[b][i] = NoRec
  /\ (pc \in {"drain", "done"} /\ ret = "0") =>
       Len(collected) = Cardinality(DOMAIN what)
  /\ Returned =>
       result >= Len(collected) - (IF wake_idx >= 0 THEN 1 ELSE 0)
  /\ (pc = "failed" /\ err = "max events fired") => data.rv >= data.maxevents

\* A watch fired with the cursor at the capacity, and the call failed.
C2_Witness ==
  /\ pc = "failed" /\ err = "max events fired"
  /\ start_rv = 0 /\ data.rv = data.maxevents
  /\ Len(collected) = data.maxevents

C4_WakeRemoved ==
  Returned =>
    LET kept == SelectSeq(collected, LAMBDA w : watches[w].fd # WokeFd) IN
    /\ \A i \in Counted : Cur[i].fd # WokeFd
    /\ result = Len(kept)
    /\ \A i \in 1 .. Len(kept) : Cur[i - 1] = RecOf(kept[i])

\* C5: a watch that primitive-remove-event has removed is never made active
\* and never deposits a record in a later call.
C5_RemovedNeverFires ==
  \A w \in WatchIds :
    watches[w].removed =>
      /\ w \notin DOMAIN what
      /\ \A i \in 1 .. Len(collected) : collected[i] # w

\* A watch was removed before any watch ever fired; in this call its
\* descriptor is ready for its mask and another watch deposited a record.
C5_Witness ==
  /\ ~ ever_fired
  /\ pc = "done" /\ Len(collected) >= 1
  /\ \E w \in WatchIds :
       /\ watches[w].removed
       /\ watches[w].fd = UserFd
       /\ watches[w].ev \cap ready # {}

\* C6: the capacity in use is that of the bytevector in use; no other
\* bytevector is written after the resize that replaced it; every record of a
\* call lies in the bytevector in use, below its capacity; the capacity error
\* is raised only against the capacity of the bytevector in use.
C6_ResizeTakesEffect ==
  /\ data.maxevents = maxevents_of(data.events)
  /\ \A b \in Bytevectors \ {data.events} : buf[b] = Fresh
  /\ pc = "callbacks" =>
       \A i \in 1 .. Len(collected) :
         /\ start_rv + i <= maxevents_of(data.events)
         /\ Cur[start_rv + i - 1] = RecOf(collected[i])
  /\ (pc = "failed" /\ err = "max events fired") =>
       data.rv >= maxevents_of(data.events)

\* After a resize to a new bytevector, a watch that existed before it has
\* deposited its record there, at a slot the smallest bytevector lacks.
C6_Witness ==
  /\ resize_mark >= 1
  /\ pc = "callbacks" /\ start_rv = 0
  /\ Len(collected) >= 2
  /\ collected[2] <= resize_mark
  /\ Cur[1] = RecOf(collected[2])

C8_Original ==
  (pc = "done" /\ c_timeout < 0) =>
    /\ DOMAIN what # {}
    /\ result = 0 => wake_idx >= 0

\* Entering the reactor for a negative timeout leaves the deadlines as they are.
C8_ArmsNothing ==
  (pc = "idle" /\ pc' # "idle" /\ c_timeout' < 0) => deadlines' = deadlines

\* C8, amended: a call with a negative timeout arms no deadline; it returns
\* only when prepare-to-wait refused to block, or nothing was pending on the
\* reactor, or a deadline armed by an earlier call expired, or a watch fired;
\* and when a watch fired it returns 0 only with the woke record removed.
C8_Amended ==
  /\ []((pc = "done" /\ c_timeout < 0) =>
          /\ \/ ret = "notrun"
             \/ ret = "1"
             \/ gotterm
             \/ DOMAIN what # {}
          /\ (DOMAIN what # {} /\ result = 0) => wake_idx >= 0)
  /\ [][C8_ArmsNothing]_vars

\* A call with a negative timeout returned 0 with no watch fired and no wake:
\* the deadline of an earlier call expired under it.
C8_Witness ==
  /\ pc = "done" /\ c_timeout < 0 /\ ret = "0"
  /\ gotterm /\ DOMAIN what = {} /\ result = 0 /\ pipe = 0

\* C9: with a non-zero timeout the thread is marked as blocking on the wake
\* descriptor while it is in the reactor and the mark is gone once the wait is
\* over, however the call ends; with a zero timeout the thread is never
\* marked and stays in the host runtime.
C9_MarkedAndCleared ==
  /\ (pc \in {"loop", "callbacks"} /\ c_timeout # 0) =>
       sleep_fd = WakeFd /\ ~ in_guile
  /\ (pc \in {"drain", "done"} \/
      (pc = "failed" /\ err \in {"max events fired", "event loop failed"})) =>
       sleep_fd = NoFd
  /\ (pc \in {"loop", "callbacks"} /\ c_timeout = 0) =>
       sleep_fd = NoFd /\ in_guile

\* C10: primitive-event-wake raises exactly when the write failed with an
\* errno other than EWOULDBLOCK and EAGAIN.
C10_RaisesExactly ==
  wake.raised <=> (wake.ret < 0 /\ wake.errno \notin {EWOULDBLOCK, EAGAIN})

\* The three outcomes have been seen: here the write failed for another
\* reason, and the call raised.
C10_Witness == wake.ret < 0 /\ wake.errno = EBADF /\ wake.raised

\* C11: with k >= 1 bytes pending on the woke descriptor and no writer, the
\* drain of a call that found the woke record ends, and the call returns with
\* no byte left pending; until then the k bytes are all there; afterwards the
\* woke descriptor's watch is never made active again, a call stops blocking
\* only for the other watch or a deadline, and no record the call counts holds
\* the woke descriptor.
C11_DrainsAll ==
  /\ (pc = "drain") ~> (pc = "done" /\ pipe = 0)
  /\ []((pc = "done" /\ wake_idx >= 0) => pipe = 0)
  /\ [](pc # "drain" => pipe \in {0, pending0})
  /\ []((pc = "callbacks" /\ pipe = 0) =>
          /\ \A w \in DOMAIN what : watches[w].fd # WokeFd
          /\ DOMAIN what = {} => gotterm)
  /\ []((pc = "done" /\ wake_idx < 0) =>
          \A i \in Counted : Cur[i].fd # WokeFd)

\* Two full reads and one that finds nothing: 64 bytes were pending, the call
\* has returned and none is left.
C11_Witness ==
  /\ pending0 = 2 * sizeof_zeroes
  /\ pc = "done" /\ wake_idx >= 0 /\ pipe = 0

\* C12: the cursor is zero whenever a primitive-event-loop call begins,
\* whatever the call before it did, and the count a call returns is no more
\* than the number of watches that deposited a record in that call.
C12_CursorZero ==
  /\ pc = "idle" => data.rv = 0
  /\ pc # "idle" => start_rv = 0
  /\ Returned => result <= Len(collected)

\* C13: for a timeout t >= 0 and U time units per second, U a divisor or a
\* multiple of a million, the deadline has tv_sec = t div U and
\* 0 <= tv_usec < 1000000, and tv_usec is the rest of t, t mod U, in whole
\* microseconds rounded down: exactly (t mod U) * (1000000 / U) when U divides
\* a million, and the quotient of t mod U by U / 1000000 when U is a multiple
\* of it.  t = 0 gives the zero deadline, which event_base_loopexit takes as
\* expired at once.
C13_Timeval ==
  conv.tv # << >> =>
    LET t  == conv.t
        U  == conv.U
        tv == conv.tv
        q  == U \div 1000000
        m  == 1000000 \div U
    IN  /\ t >= 0
        /\ tv.tv_sec = t \div U
        /\ 0 <= tv.tv_usec /\ tv.tv_usec < 1000000
        /\ U % 1000000 = 0 =>
             /\ tv.tv_usec * q <= t % U
             /\ t % U < (tv.tv_usec + 1) * q
        /\ 1000000 % U = 0 =>
             /\ tv.tv_usec % m = 0
             /\ tv.tv_usec \div m = t % U
        /\ t = 0 =>
             /\ tv = [tv_sec |-> 0, tv_usec |-> 0]
             /\ event_base_loopexit([armed |-> 0, expired |-> 0], tv).expired = 1

\* One and a half seconds in Guile's nanoseconds became 1 s and 500000 us.
C13_Witness ==
  /\ conv.U = scm_c_time_units_per_second
  /\ conv.t = scm_c_time_units_per_second + scm_c_time_units_per_second \div 2
  /\ conv.tv = [tv_sec |-> 1, tv_usec |-> 500000]

\* The step of a call that prepare-to-wait told not to block: it is the only
\* one that takes an idle thread to the return.
DeclinedStep == pc = "idle" /\ pc' = "done"

\* C14: a call with a non-zero timeout that scm_c_prepare_to_wait_on_fd told
\* not to block returns 0 in one step, without running the reactor: no
\* callback runs, no record is written to a bytevector, no byte is read from
\* the woke descriptor, the watches and the deadlines are as they were and the
\* thread is not marked as blocking.
C14_DeclinedFrame ==
  /\ []((pc = "done" /\ ret = "notrun") =>
          /\ c_timeout # 0
          /\ result = 0 /\ data.rv = 0
          /\ collected = << >> /\ what = << >> /\ active = {}
          /\ wake_idx = -1)
  /\ [][DeclinedStep =>
          /\ ret' = "notrun"
          /\ watches' = watches
          /\ buf' = buf
          /\ pipe' = pipe
          /\ deadlines' = deadlines
          /\ sleep_fd' = sleep_fd /\ in_guile' = in_guile]_vars

\* A call was told not to block while a byte was pending on the woke
\* descriptor, a read watch was registered on it, and the call before had
\* left the cursor above zero: it has returned 0.
C14_Witness ==
  /\ pc = "done" /\ ret = "notrun"
  /\ start_rv > 0 /\ pipe > 0 /\ HasWokeWatch
  /\ result = 0

\* What a step of a primitive working on the reactor changes some of (the
\* deadlines apart, which the passing of time changes too, and no primitive
\* without changing pc).
ReactorState ==
  << watches, data, buf, pc, c_timeout, active, what, ready, ret, gotterm,
     err, result, start_rv, collected, wake_idx >>

\* C15: event_base_free is called on the base at most once; the step that
\* calls it is a finalizer's, taken while the handle is unreachable, and no
\* step of a primitive; once the base is released the handle stays
\* unreachable and no primitive works on the reactor again.
C15_ReleasedOnce ==
  /\ [](Cardinality(released) <= 1)
  /\ [](released # {} => pc = "unreachable")
  /\ [][released' # released =>
          /\ pc = "unreachable"
          /\ released = {}
          /\ UNCHANGED ReactorState]_vars
  /\ [][released # {} => UNCHANGED ReactorState]_vars

\* The base was released with a watch still registered on it and a byte
\* pending in the wake pipe.
C15_Witness ==
  /\ released = {1}
  /\ pc = "unreachable"
  /\ \E w \in WatchIds : watches[w].pending
  /\ pipe > 0

====
